---------------------------- MODULE Spec2Model ----------------------------
(***************************************************************************)
(* Model of the BMW render configurator API: the accessory catalog         *)
(* (AccessoriesStore), the prompt builders and the render routes of the    *)
(* express server.  JavaScript strings are TLA+ strings; TLC evaluates     *)
(* Len, \o and SubSeq on them, so text is processed character by           *)
(* character as the code does.                                             *)
(***************************************************************************)
EXTENDS Integers, Sequences, FiniteSets, TLC

VARIABLES
    items,      \* AccessoriesStore.items: [isArray, elems]
    byId,       \* AccessoriesStore.byId: function from trimmed id to item
    op,         \* the store operation or builder applied last
    args,       \* its arguments
    ret,        \* its return value
    deploy,     \* the server run: [rev, envModel, apiKey]
    pc,         \* where the server or its request handler stands
    req,        \* the request being handled
    ctx,        \* the handler's locals
    pngs,       \* the image buffers toPngBuffer produced for the request
    outbound,   \* the calls made to the backend for the request
    replies,    \* the backend's answers to them
    responses   \* the responses sent to the caller

storeVars == <<items, byId, op, args, ret>>
serverVars == <<deploy, pc, req, ctx, pngs, outbound, replies, responses>>
vars == <<items, byId, op, args, ret, deploy, pc, req, ctx, pngs, outbound, replies, responses>>

-----------------------------------------------------------------------------
(* Bounds of the model *)

\* most comma-separated pieces of a generated accessory_ids string
MaxTokens == 3

-----------------------------------------------------------------------------
(* JavaScript string primitives *)

CharAt(s, i) == SubSeq(s, i, i)

\* the characters String.prototype.trim strips (those the model's texts use)
Whitespace == {" ", "\t", "\n", "\r"}

UpperChars == "ABCDEFGHIJKLMNOPQRSTUVWXYZ"
LowerChars == "abcdefghijklmnopqrstuvwxyz"

LowerChar(c) ==
    IF \E k \in 1..Len(UpperChars) : CharAt(UpperChars, k) = c
    THEN CharAt(LowerChars, CHOOSE k \in 1..Len(UpperChars) : CharAt(UpperChars, k) = c)
    ELSE c

RECURSIVE toLowerCase(_)
toLowerCase(s) ==
    IF Len(s) = 0 THEN ""
    ELSE LowerChar(CharAt(s, 1)) \o toLowerCase(SubSeq(s, 2, Len(s)))

\* the first index from i on, and the last index up to i, that trim keeps
RECURSIVE FirstKept(_, _)
FirstKept(s, i) ==
    IF i > Len(s) THEN i
    ELSE IF CharAt(s, i) \in Whitespace THEN FirstKept(s, i + 1) ELSE i

RECURSIVE LastKept(_, _)
LastKept(s, i) ==
    IF i < 1 THEN 0
    ELSE IF CharAt(s, i) \in Whitespace THEN LastKept(s, i - 1) ELSE i

trim(s) ==
    LET a == FirstKept(s, 1)
        b == LastKept(s, Len(s))
    IN  IF a > b THEN "" ELSE SubSeq(s, a, b)

\* String.prototype.includes
includes(text, h) ==
    \E i \in 1..(Len(text) - Len(h) + 1) : SubSeq(text, i, i + Len(h) - 1) = h

\* String.prototype.split(",")
RECURSIVE split(_)
split(s) ==
    LET commas == {i \in 1..Len(s) : CharAt(s, i) = ","}
    IN  IF commas = {} THEN <<s>>
        ELSE LET i == CHOOSE c \in commas : \A d \in commas : c <= d
             IN  <<SubSeq(s, 1, i - 1)>> \o split(SubSeq(s, i + 1, Len(s)))

\* Array.prototype.join, the sequence halved at each step
RECURSIVE join(_, _)
join(seq, sep) ==
    IF Len(seq) = 0 THEN ""
    ELSE IF Len(seq) = 1 THEN seq[1]
    ELSE LET half == Len(seq) \div 2
         IN  join(SubSeq(seq, 1, half), sep) \o sep
                 \o join(SubSeq(seq, half + 1, Len(seq)), sep)

-----------------------------------------------------------------------------
(* accessoriesStore: the mountability policy *)

DISALLOWED_PRODUCT_TYPES ==
    {"backpack", "rucksack", "shoulder bag", "apparel", "jacket", "pants",
     "gloves", "boots", "helmet", "shirt", "t-shirt", "hoodie"}

DISALLOWED_TEXT_HINTS ==
    <<"backpack", "rucksack", "shoulder bag", "daypack", "laptop sleeve",
      "wear", "worn">>

norm(s) == trim(toLowerCase(s))

\* item.keywords.product_type is kept as the sequence of its keys (types)
getProductTypes(item) == [i \in 1..Len(item.types) |-> norm(item.types[i])]

IsDisallowedType(t) == t \in DISALLOWED_PRODUCT_TYPES

\* isMountable matching the hints against the text as written, not lower-cased
isMountableCaseSensitive(item) ==
    LET types == getProductTypes(item)
        text == item.name \o " " \o item.description \o " " \o item.category
        hasDisallowedType == \E i \in 1..Len(types) : IsDisallowedType(types[i])
        hasDisallowedText ==
            \E k \in 1..Len(DISALLOWED_TEXT_HINTS) : includes(text, DISALLOWED_TEXT_HINTS[k])
    IN  ~(hasDisallowedType \/ hasDisallowedText)

isMountable(item) ==
    LET types == getProductTypes(item)
        text == toLowerCase(item.name \o " " \o item.description \o " " \o item.category)
        hasDisallowedType == \E i \in 1..Len(types) : IsDisallowedType(types[i])
        hasDisallowedText ==
            \E k \in 1..Len(DISALLOWED_TEXT_HINTS) : includes(text, DISALLOWED_TEXT_HINTS[k])
    IN  ~(hasDisallowedType \/ hasDisallowedText)

-----------------------------------------------------------------------------
(* accessoriesStore: the catalog and its queries *)

Item(id, name, title, category, description, types) ==
    [id |-> id, name |-> name, title |-> title, category |-> category,
     description |-> description, types |-> types]

\* The datasets accessories_merged.json may hold.
CatalogA ==
    << Item("w1", "Windshield", "", "Wind", "Tall screen", <<"windshield">>),
       Item("h1", "Enduro Lid", "", "Rider", "Light shell", <<"Helmet ">>),
       Item("b1", "Daypack 20", "", "Bags", "", <<"luggage">>),
       Item("r1", "Rucksack", "", "Bags", "Big",
            <<"Tank Bag", "Backpack", " RUCKSACK">>),
       Item(" s1 ", "Shoulder", "", "Bags", "bag strap", << >>),
       Item("c1", "", "Top Case", "Cases", "Alu", <<"top case">>) >>

\* two records under one trimmed id: the later one wins in byId
CatalogB ==
    << Item("w1", "Windshield", "", "Wind", "Tall screen", <<"windshield">>),
       Item("p1", "Pannier", "", "Cases", "Side case", <<"pannier">>),
       Item("w1 ", "Screen cover", "", "Wind", "Worn on the screen", << >>) >>

Datasets == {CatalogA, CatalogB}

\* a null entry of a JSON list
NullItem == [null |-> TRUE]
IsNullItem(a) == "null" \in DOMAIN a

\* what a load() that throws makes of the file: readFileSync or JSON.parse throw
\* before this.items is assigned; a value that is not a list, or a list with a
\* null entry, is assigned to this.items and makes items.map throw
BadDatasets ==
    { [assigned |-> FALSE],
      [assigned |-> TRUE, items |-> [isArray |-> FALSE, elems |-> << >>]],
      [assigned |-> TRUE,
       items |-> [isArray |-> TRUE,
                  elems |-> << Item("w1", "Windshield", "", "Wind", "Tall screen",
                                    <<"windshield">>),
                               NullItem >>]] }

\* the exception of a property read or method call on a value without it
TypeError == [threw |-> "TypeError"]

\* new Map(items.map((x) => [String(x.id).trim(), x]))
IndexById(elems) ==
    LET keys == {trim(elems[i].id) : i \in 1..Len(elems)}
        last(k) == CHOOSE i \in 1..Len(elems) :
                      /\ trim(elems[i].id) = k
                      /\ \A j \in 1..Len(elems) : trim(elems[j].id) = k => j <= i
    IN  [k \in keys |-> elems[last(k)]]

\* the projection search and resolveFromCsv return for an item
Projection(id, item) ==
    [id |-> id,
     name |-> IF item.name # "" THEN item.name ELSE item.title,
     category |-> item.category,
     description |-> item.description]

NonEmpty(s) == s # ""

\* ParseIds keeping only the first occurrence of each id
ParseIdsUnique(csvIds) ==
    LET parts == split(csvIds)
        ids == SelectSeq([i \in 1..Len(parts) |-> trim(parts[i])], NonEmpty)
        first == {i \in 1..Len(ids) : \A j \in 1..(i - 1) : ids[j] # ids[i]}
        nth(k) == CHOOSE i \in first : Cardinality({j \in first : j <= i}) = k
    IN  [k \in 1..Cardinality(first) |-> ids[nth(k)]]

\* split(",").map((s) => s.trim())
TrimAll(seq) == [i \in 1..Len(seq) |-> trim(seq[i])]

\* csvIds.split(",").map(trim).filter(Boolean)
ParseIds(csvIds) == SelectSeq(TrimAll(split(csvIds)), NonEmpty)

\* FilterReason looking at the text hints first
FilterReasonTextFirst(item) ==
    LET types == SelectSeq(getProductTypes(item), IsDisallowedType)
        text == toLowerCase(item.name \o " " \o item.description \o " " \o item.category)
    IN  IF \E k \in 1..Len(DISALLOWED_TEXT_HINTS) : includes(text, DISALLOWED_TEXT_HINTS[k])
        THEN "excluded by text hint (non-mountable)"
        ELSE "excluded by product_type (" \o join(types, ", ") \o ")"

\* the reason resolveFromCsv records for an excluded item
FilterReason(item) ==
    LET types == SelectSeq(getProductTypes(item), IsDisallowedType)
    IN  IF Len(types) > 0
        THEN "excluded by product_type (" \o join(types, ", ") \o ")"
        ELSE "excluded by text hint (non-mountable)"

EmptyResolution == [selected |-> << >>, missing |-> << >>, filtered_out |-> << >>]

\* ResolveStep without the continue after filtered_out.push
ResolveStepFallThrough(acc, id, mountableOnly) ==
    IF id \notin DOMAIN byId
    THEN [acc EXCEPT !.missing = Append(@, id)]
    ELSE IF mountableOnly /\ ~isMountable(byId[id])
    THEN [acc EXCEPT !.filtered_out =
                Append(@, [id |-> id, reason |-> FilterReason(byId[id])]),
                     !.selected = Append(@, Projection(id, byId[id]))]
    ELSE [acc EXCEPT !.selected = Append(@, Projection(id, byId[id]))]

\* one pass of the for loop of resolveFromCsv
ResolveStep(acc, id, mountableOnly) ==
    IF id \notin DOMAIN byId
    THEN [acc EXCEPT !.missing = Append(@, id)]
    ELSE IF mountableOnly /\ ~isMountable(byId[id])
    THEN [acc EXCEPT !.filtered_out =
                Append(@, [id |-> id, reason |-> FilterReason(byId[id])])]
    ELSE [acc EXCEPT !.selected = Append(@, Projection(id, byId[id]))]

RECURSIVE ResolveLoop(_, _, _)
ResolveLoop(acc, ids, mountableOnly) ==
    IF Len(ids) = 0 THEN acc
    ELSE ResolveLoop(ResolveStep(acc, Head(ids), mountableOnly), Tail(ids), mountableOnly)

resolveFromCsv(csvIds, mountableOnly) ==
    LET ids == ParseIds(csvIds)
    IN  IF Len(ids) = 0 THEN EmptyResolution
        ELSE ResolveLoop(EmptyResolution, ids, mountableOnly)

Min(a, b) == IF a < b THEN a ELSE b
Max(a, b) == IF a > b THEN a ELSE b

\* the text search matches the query against
SearchText(a) == toLowerCase(a.name \o " " \o a.description \o " " \o a.category)

\* isMountable reads its item through item?.: a null entry is mountable
MountableEntry(a) == IsNullItem(a) \/ isMountable(a)

HasNullItem(elems) == \E i \in 1..Len(elems) : IsNullItem(elems[i])

\* search({ q, limit, mountableOnly }); limit is the number the route passes.
\* On items that is not a list filter, slice or map do not exist; a null entry
\* makes the query filter and the projection throw.
search(q, limit, mountableOnly) ==
    LET qq == norm(q)
        lim == Max(1, Min(1000, IF limit = 0 THEN 100 ELSE limit))
        matches(a) == includes(SearchText(a), qq)
        byQuery == IF qq # "" THEN SelectSeq(items.elems, matches) ELSE items.elems
        found == IF mountableOnly THEN SelectSeq(byQuery, MountableEntry) ELSE byQuery
        sliced == SubSeq(found, 1, Min(lim, Len(found)))
    IN  IF ~items.isArray THEN TypeError
        ELSE IF qq # "" /\ HasNullItem(items.elems) THEN TypeError
        ELSE IF HasNullItem(sliced) THEN TypeError
        ELSE [total |-> Len(found),
              items |-> [i \in 1..Len(sliced) |-> Projection(sliced[i].id, sliced[i])]]

-----------------------------------------------------------------------------
(* The store as an object: construction, load, resolveFromCsv, search *)

\* the queries and limits GET /v1/accessories is tried with
Queries == {"", "bag", " WIND", "zz"}
Limits == {-1, 0, 1, 2, 100, 1001}

\* the pieces generated accessory_ids strings are joined from
CsvPieces == {"w1", "h1", "b1", "zz", "", " r1 "}

RECURSIVE PieceSeqs(_)
PieceSeqs(n) ==
    IF n = 0 THEN {<< >>}
    ELSE LET shorter == PieceSeqs(n - 1)
         IN  shorter \cup {Append(q, p) : q \in {r \in shorter : Len(r) = n - 1}, p \in CsvPieces}

CsvInputs ==
    {join(q, ",") : q \in PieceSeqs(MaxTokens) \ {<< >>}}
        \cup {"  ", " , ,", " w1 ,,zz , h1,", "c1,r1,b1,s1,c1", "W1,w 1"}

\* constructor()
InitStore ==
    /\ items = [isArray |-> TRUE, elems |-> << >>]
    /\ byId = << >>
    /\ op = "new"
    /\ args = << >>
    /\ ret = << >>

\* no server around the store or the builders
NoServer ==
    /\ deploy = << >>
    /\ pc = "none"
    /\ req = << >>
    /\ ctx = << >>
    /\ pngs = << >>
    /\ outbound = << >>
    /\ replies = << >>
    /\ responses = << >>

\* the store on its own, right after new AccessoriesStore()
InitCatalog == InitStore /\ NoServer

\* load() of a readable, well-formed dataset
Load ==
    \E d \in Datasets :
        /\ items' = [isArray |-> TRUE, elems |-> d]
        /\ byId' = IndexById(d)
        /\ op' = "load"
        /\ args' = << >>
        /\ ret' = Len(d)
        /\ UNCHANGED serverVars

\* A query leaves the store as it is, so what it returns does not depend on the
\* queries before it: each query is taken right after construction or a load.
Idle == op \in {"new", "load"}

ResolveFromCsv ==
    \E csvIds \in CsvInputs, mountableOnly \in BOOLEAN :
        /\ Idle
        /\ op' = "resolveFromCsv"
        /\ args' = [csvIds |-> csvIds, mountableOnly |-> mountableOnly]
        /\ ret' = resolveFromCsv(csvIds, mountableOnly)
        /\ UNCHANGED <<items, byId>>
        /\ UNCHANGED serverVars

Search ==
    \E q \in Queries, limit \in Limits, mountableOnly \in BOOLEAN :
        /\ Idle
        /\ op' = "search"
        /\ args' = [q |-> q, limit |-> limit, mountableOnly |-> mountableOnly]
        /\ ret' = search(q, limit, mountableOnly)
        /\ UNCHANGED <<items, byId>>
        /\ UNCHANGED serverVars

NextCatalog == Load \/ ResolveFromCsv \/ Search

SpecCatalog == InitCatalog /\ [][NextCatalog]_vars

-----------------------------------------------------------------------------
(* server.js: the compact prompt for dall-e-2 *)

viewText(view) ==
    IF view = "front_3q" THEN "front three-quarter view"
    ELSE IF view = "rear_3q" THEN "rear three-quarter view"
    ELSE view \o " side view"

variantText(variant) ==
    IF variant = "r1300gs_adventure" THEN "BMW R1300GS Adventure" ELSE "BMW R1300GS"

\* a field of a JavaScript object, "" standing for undefined
Field(a, f) == IF f \in DOMAIN a THEN a[f] ELSE ""

\* String(a?.name || a?.title || a?.id || "").trim()
AccessoryName(a) ==
    trim(IF Field(a, "name") # "" THEN a.name
         ELSE IF Field(a, "title") # "" THEN a.title
         ELSE Field(a, "id"))

\* String.prototype.slice(0, n) for n >= 0
slice(s, n) == SubSeq(s, 1, Min(n, Len(s)))

\* the for loop over names: append while the prompt stays within maxLen
\* AppendNames testing the prompt before the name is appended, not with it
RECURSIVE AppendNamesOvershoot(_, _, _, _)
AppendNamesOvershoot(p, names, i, maxLen) ==
    IF i > Len(names) THEN p
    ELSE LET part == (IF i = 1 THEN "" ELSE ", ") \o names[i]
         IN  IF Len(p) > maxLen THEN p
             ELSE AppendNamesOvershoot(p \o part, names, i + 1, maxLen)

RECURSIVE AppendNames(_, _, _, _)
AppendNames(p, names, i, maxLen) ==
    IF i > Len(names) THEN p
    ELSE LET part == (IF i = 1 THEN "" ELSE ", ") \o names[i]
         IN  IF Len(p \o part) > maxLen THEN p
             ELSE AppendNames(p \o part, names, i + 1, maxLen)

\* the prompt before the final hard cap and trim
CompactBody(variant, view, background, realism, accessories, maxLen) ==
    LET bikeText == variantText(variant)
        bg == IF background = "white" THEN "pure white seamless studio background"
              ELSE "neutral studio gray studio background"
        style ==
            IF realism = "more_real"
            THEN "Photorealistic studio product render, realistic materials, accurate shadows."
            ELSE IF realism = "slightly_stylized"
            THEN "High-quality studio 3D product render, subtle stylization, realistic materials."
            ELSE "Premium studio 3D catalog render, realistic materials, clean lighting."
        names == SelectSeq([i \in 1..Len(accessories) |-> AccessoryName(accessories[i])],
                           NonEmpty)
        base ==
            "Edit the uploaded photo of a motorcycle.\n" \o
            "Keep the same motorcycle identity and silhouette.\n" \o
            "Transform it into a single clean " \o bikeText \o
                " studio product render, " \o viewText(view) \o ".\n" \o
            "Style: " \o style \o "\n" \o
            "Background: " \o bg \o "\n" \o
            "Constraints: one bike only, no people, no extra objects, no text, no watermark.\n"
    IN  IF Len(names) > 0
        THEN AppendNames(
                 base \o "Accessories to install and clearly show mounted on the bike: ",
                 names, 1, maxLen) \o ".\n"
        ELSE base

\* HardCap cutting only a prompt without room for the closing ".\n"
HardCapLate(p, maxLen) == IF Len(p) > maxLen + 2 THEN slice(p, maxLen) ELSE p

HardCap(p, maxLen) == IF Len(p) > maxLen THEN slice(p, maxLen) ELSE p

buildCompactDalle2Prompt(variant, view, background, realism, accessories, maxLen) ==
    trim(HardCap(CompactBody(variant, view, background, realism, accessories, maxLen),
                 maxLen))

-----------------------------------------------------------------------------
(* prompt.js: the unrestricted prompt *)

\* the length of the "must visibly include" checklist
MustListMax == 12

\* AccLine without the description
AccLineNameOnly(a) == "- " \o a.name

AccLine(a) ==
    "- " \o a.name \o (IF a.description # "" THEN ": " \o a.description ELSE "")

MustLine(a) == "- " \o a.name

buildEditPrompt(variant, view, background, realism, accessories) ==
    LET bikeText == variantText(variant)
        bg == IF background = "white" THEN "pure white seamless studio background"
              ELSE "neutral studio gray seamless background"
        styleLine ==
            IF realism = "more_real"
            THEN "Convert the photo into a photorealistic studio product render with PBR materials and accurate shadows."
            ELSE IF realism = "slightly_stylized"
            THEN "Convert the photo into a high-quality studio 3D product render with subtle stylization, still realistic materials."
            ELSE "Convert the photo into a premium studio 3D product render (catalog look), realistic materials, clean lighting."
        accLines ==
            IF Len(accessories) > 0
            THEN join([i \in 1..Len(accessories) |-> AccLine(accessories[i])], "\n")
            ELSE "- (none)"
        first == SubSeq(accessories, 1, Min(MustListMax, Len(accessories)))
        mustList ==
            IF Len(accessories) > 0
            THEN join([i \in 1..Len(first) |-> MustLine(first[i])], "\n")
            ELSE "- (none)"
    IN  trim(
        "\nYou are editing a photo of a motorcycle.\n\n" \o
        "Goal:\n" \o
        "- Keep the same motorcycle identity and overall silhouette from the input photo.\n" \o
        "- Transform it into a single clean " \o bikeText \o " studio product render, "
            \o viewText(view) \o ".\n\n" \o
        "Style:\n" \o
        "- " \o styleLine \o "\n" \o
        "- Lighting: professional studio softboxes, clean highlights, realistic shadow under the bike.\n" \o
        "- Background: " \o bg \o "\n\n" \o
        "Accessories:\n" \o
        "Install and clearly show these accessories mounted on the bike:\n" \o
        accLines \o "\n\n" \o
        "Important:\n" \o
        "- If the input photo already contains luggage, bars, guards, racks, or similar accessories, REPLACE them with the specified accessories above.\n" \o
        "- Make the installed accessories clearly visible and prominent in the final render (do not hide them).\n\n" \o
        "Constraints:\n" \o
        "- One bike only. No rider. No people.\n" \o
        "- No text, no watermark, no labels.\n" \o
        "- Do not add extra bikes or extra objects.\n" \o
        "- Keep geometry consistent with a real " \o bikeText \o ".\n\n" \o
        "Must visibly include (non-negotiable):\n" \o
        mustList \o "\n" \o
        "If any item above is not visible, regenerate and fix until all are visible.\n")

\* the prompt length the render routes allow for dall-e-2
Dalle2MaxLen == 950

\* the prompt the render routes build for the active model
RoutePrompt(model, variant, view, background, realism, selected) ==
    IF model = "dall-e-2"
    THEN buildCompactDalle2Prompt(variant, view, background, realism, selected, Dalle2MaxLen)
    ELSE buildEditPrompt(variant, view, background, realism, selected)

-----------------------------------------------------------------------------
(* The prompt builders applied to bounded inputs *)

\* most accessories of a generated accessory list
MaxAccessories == 2

\* copies of the long name's unit
LongNameUnits == 15

RECURSIVE Repeat(_, _)
Repeat(s, n) == IF n = 0 THEN "" ELSE s \o Repeat(s, n - 1)

Accessory(id, name, description) ==
    [id |-> id, name |-> name, category |-> "Cases", description |-> description]

AccessoryPool ==
    { Accessory("p1", "Pannier", "Side case"),
      Accessory("c1", " Top Case ", ""),
      Accessory("x9", "", "No name"),
      Accessory("l1", Repeat("Aluminium side case ", LongNameUnits), "Long") }

RECURSIVE AccessoryLists(_)
AccessoryLists(n) ==
    IF n = 0 THEN {<< >>}
    ELSE LET shorter == AccessoryLists(n - 1)
         IN  shorter \cup
             {Append(q, a) : q \in {r \in shorter : Len(r) = n - 1}, a \in AccessoryPool}

\* hundreds of accessories
ManyAccessories == [i \in 1..200 |-> Accessory("p1", "Pannier", "Side case")]

Letters == <<"A", "B", "C", "D", "E", "F", "G", "H", "I", "J", "K", "L", "M", "N">>

\* one accessory more than the checklist of buildEditPrompt holds
DistinctAccessories ==
    [i \in 1..(MustListMax + 1) |->
        Accessory("a" \o Letters[i], "Part " \o Letters[i], "Fits slot " \o Letters[i])]

AccessoryInputs ==
    AccessoryLists(MaxAccessories) \cup {ManyAccessories, DistinctAccessories}

Variants == {"r1300gs", "r1300gs_adventure"}
Views == {"left", "front_3q", "rear_3q"}
Backgrounds == {"white", "studio_gray"}
Realisms == {"more_real", "slightly_stylized", "studio_3d"}
MaxLens == {0, 1, 200, 400, 450, 480, 950}
Models == {"dall-e-2", "gpt-image-1"}

BuildCompact ==
    \E variant \in Variants, view \in Views, background \in Backgrounds,
       realism \in Realisms, accessories \in AccessoryInputs, maxLen \in MaxLens :
        /\ op = "new"
        /\ op' = "buildCompactDalle2Prompt"
        /\ args' = [variant |-> variant, view |-> view, background |-> background,
                    realism |-> realism, accessories |-> accessories, maxLen |-> maxLen]
        /\ ret' = buildCompactDalle2Prompt(variant, view, background, realism,
                                           accessories, maxLen)
        /\ UNCHANGED <<items, byId>>
        /\ UNCHANGED serverVars

\* the prompt step of the render routes
BuildRoutePrompt ==
    \E model \in Models, variant \in Variants, view \in Views,
       realism \in Realisms, accessories \in AccessoryInputs :
        /\ op = "new"
        /\ op' = "routePrompt"
        /\ args' = [model |-> model, variant |-> variant, view |-> view,
                    background |-> "studio_gray", realism |-> realism,
                    accessories |-> accessories]
        /\ ret' = RoutePrompt(model, variant, view, "studio_gray", realism, accessories)
        /\ UNCHANGED <<items, byId>>
        /\ UNCHANGED serverVars

NextPrompt == BuildCompact \/ BuildRoutePrompt

SpecPrompt == InitCatalog /\ [][NextPrompt]_vars

-----------------------------------------------------------------------------
(* server.js: request normalisation *)

\* String(v || fallback): "" stands for an absent form field
OrElse(v, fallback) == IF v = "" THEN fallback ELSE v

\* normalizeVariant; "" stands for null
normalizeVariant(v) ==
    LET s == trim(toLowerCase(v))
    IN  IF s = "r1300gs" \/ s = "r1300gs_adventure" THEN s ELSE ""

normalizeView(v) ==
    LET s == trim(toLowerCase(OrElse(v, "left")))
    IN  IF s \in {"left", "right", "front_3q", "rear_3q"} THEN s ELSE "left"

normalizeSize(v) ==
    LET s == trim(OrElse(v, "1536x1024"))
    IN  IF s \in {"1024x1024", "1536x1024", "1024x1536"} THEN s ELSE "1536x1024"

normalizeDalle2Size == "1024x1024"

\* IsDebug of a route that does not read the flag
IsDebugIgnored(body) == FALSE

\* String(req.body?.debug || "false") === "true"
IsDebug(body) == OrElse(body.debug, "false") = "true"

-----------------------------------------------------------------------------
(* The three server programs of the repository *)

\* src/server.js, and the two programs kept beside it
Revisions == {"server", "part_000", "part_001"}

DefaultModel(rev) ==
    CASE rev = "server" -> "dall-e-2"
      [] rev = "part_000" -> "gpt-image-1.5"
      [] rev = "part_001" -> "gpt-image-1"

\* String(process.env.OPENAI_IMAGE_MODEL || default).trim()
ActiveModel(d) == trim(OrElse(d.envModel, DefaultModel(d.rev)))

Routes(rev) ==
    IF rev = "server" THEN {"/v1/bike/render", "/v1/bike/render/json"}
    ELSE {"/v1/bike/render"}

\* the endpoint callOpenAIImageEdit posts to
Endpoint(rev) ==
    IF rev = "part_001" THEN "https://api.openai.com/v1/responses"
    ELSE "https://api.openai.com/v1/images/edits"

\* CallParams with the optional quality parameter sent along
CallParamsWithQuality(rev) ==
    IF rev = "part_001" THEN {"model", "input", "tools"}
    ELSE {"image", "model", "prompt", "size", "response_format", "quality"}

\* the parameters callOpenAIImageEdit sends
CallParams(rev) ==
    IF rev = "part_001" THEN {"model", "input", "tools"}
    ELSE {"image", "model", "prompt", "size", "response_format"}

-----------------------------------------------------------------------------
(* The uploaded file and its conversion to PNG *)

EndsWith(s, suffix) ==
    /\ Len(s) >= Len(suffix)
    /\ SubSeq(s, Len(s) - Len(suffix) + 1, Len(s)) = suffix

IsHeic(file) ==
    LET mime == toLowerCase(file.mimetype)
        name == toLowerCase(file.originalname)
    IN  \/ mime = "image/heic"
        \/ mime = "image/heif"
        \/ EndsWith(name, ".heic")
        \/ EndsWith(name, ".heif")

\* an upload: its geometry once .rotate() applied the orientation, and what
\* sharp and heic-convert make of its buffer
Upload(mimetype, originalname, width, height, sharpDecodes, heicDecodes) ==
    [mimetype |-> mimetype, originalname |-> originalname,
     width |-> width, height |-> height,
     sharpDecodes |-> sharpDecodes, heicDecodes |-> heicDecodes]

Files ==
    { Upload("image/jpeg", "bike.jpg", 4000, 3000, TRUE, FALSE),
      Upload("image/png", "thumb.png", 800, 600, TRUE, FALSE),
      Upload("application/octet-stream", "IMG_1.HEIC", 3024, 4032, FALSE, TRUE),
      Upload("image/heic", "photo", 4032, 3024, TRUE, TRUE),
      Upload("IMAGE/HEIF", "scan.bin", 1000, 1000, FALSE, FALSE),
      Upload("image/png", "broken.png", 0, 0, FALSE, FALSE) }

\* ToPng converting every HEIC upload first, whatever sharp makes of it
ToPngConvertFirst(file) ==
    IF IsHeic(file)
    THEN IF file.heicDecodes
         THEN [outcome |-> "png", via |-> "heic-convert",
               steps |-> <<"heicConvert", "pipeline">>]
         ELSE [outcome |-> "throw", via |-> "heic-convert", steps |-> <<"heicConvert">>]
    ELSE IF file.sharpDecodes
    THEN [outcome |-> "png", via |-> "sharp", steps |-> <<"pipeline">>]
    ELSE [outcome |-> "throw", via |-> "sharp", steps |-> <<"pipeline">>]

\* the try/catch of toPngBuffer / toRgbaPngBuffer: a buffer or a throw, and the
\* calls made on the way
ToPng(file) ==
    IF file.sharpDecodes
    THEN [outcome |-> "png", via |-> "sharp", steps |-> <<"pipeline">>]
    ELSE IF ~IsHeic(file)
    THEN [outcome |-> "throw", via |-> "sharp", steps |-> <<"pipeline">>]
    ELSE IF file.heicDecodes
    THEN [outcome |-> "png", via |-> "heic-convert",
          steps |-> <<"pipeline", "heicConvert", "pipeline">>]
    ELSE [outcome |-> "throw", via |-> "heic-convert",
          steps |-> <<"pipeline", "heicConvert">>]

\* Math.round(n / d) for n >= 0, d > 0
Round(n, d) == (2 * n + d) \div (2 * d)

\* sharp resize({ width: px, height: px, fit: "cover" })
ResizeCover(w, h, px) == [width |-> px, height |-> px]

\* ResizeInside without withoutEnlargement: the larger side becomes px
ResizeInsideEnlarging(w, h, px) ==
    IF w >= h THEN [width |-> px, height |-> Max(1, Round(h * px, w))]
    ELSE [width |-> Max(1, Round(w * px, h)), height |-> px]

\* sharp resize({ width: px, height: px, fit: "inside", withoutEnlargement: true }):
\* both sides shrink by the larger of w/px and h/px, at least 1, and no side
\* falls below one pixel
ResizeInside(w, h, px) ==
    IF w <= px /\ h <= px THEN [width |-> w, height |-> h]
    ELSE IF w >= h THEN [width |-> px, height |-> Max(1, Round(h * px, w))]
    ELSE [width |-> Max(1, Round(w * px, h)), height |-> px]

\* the buffer ToPng gives, with the geometry the pipeline leaves it
WithGeometry(path, geometry) ==
    IF path.outcome = "png"
    THEN [outcome |-> path.outcome, via |-> path.via, steps |-> path.steps,
          width |-> geometry.width, height |-> geometry.height]
    ELSE path

\* toPngBuffer of server.js
toPngBuffer(file, targetPx, square) ==
    WithGeometry(ToPng(file),
        IF square THEN ResizeCover(file.width, file.height, targetPx)
        ELSE ResizeInside(file.width, file.height, targetPx))

\* toRgbaPngBuffer of the older programs; resizeMax is Number(RESIZE_MAX || 0)
toRgbaPngBuffer(file, resizeMax) ==
    WithGeometry(ToPng(file),
        IF resizeMax > 0 THEN ResizeInside(file.width, file.height, resizeMax)
        ELSE [width |-> file.width, height |-> file.height])

-----------------------------------------------------------------------------
(* The conversion applied to bounded inputs *)

\* the sides of the generated images, in pixels
MaxSide == 5

\* the generated target sizes
MaxTargetPx == 3

ImageSides == 1..MaxSide \cup {3000, 4000}
TargetPxs == 1..MaxTargetPx \cup {1024, 1600}

\* declared type and name of the generated uploads
Declarations ==
    { [mimetype |-> "image/jpeg", originalname |-> "bike.jpg"],
      [mimetype |-> "Image/HEIF", originalname |-> "photo"],
      [mimetype |-> "", originalname |-> "IMG_1.HeiC"],
      [mimetype |-> "text/heic", originalname |-> "heic.png"] }

ImageInputs ==
    {Upload(d.mimetype, d.originalname, w, h, sharpDecodes, heicDecodes) :
        d \in Declarations, w \in ImageSides, h \in ImageSides,
        sharpDecodes \in BOOLEAN, heicDecodes \in BOOLEAN}

ConvertToPng ==
    \E file \in ImageInputs, targetPx \in TargetPxs, square \in BOOLEAN :
        /\ op = "new"
        /\ op' = "toPngBuffer"
        /\ args' = [file |-> file, targetPx |-> targetPx, square |-> square]
        /\ ret' = toPngBuffer(file, targetPx, square)
        /\ UNCHANGED <<items, byId>>
        /\ UNCHANGED serverVars

ConvertToRgbaPng ==
    \E file \in ImageInputs, resizeMax \in {0} \cup TargetPxs :
        /\ op = "new"
        /\ op' = "toRgbaPngBuffer"
        /\ args' = [file |-> file, resizeMax |-> resizeMax]
        /\ ret' = toRgbaPngBuffer(file, resizeMax)
        /\ UNCHANGED <<items, byId>>
        /\ UNCHANGED serverVars

NextImage == ConvertToPng \/ ConvertToRgbaPng

SpecImage == InitCatalog /\ [][NextImage]_vars

-----------------------------------------------------------------------------
(* The backend's answers *)

JsonNull == [jsonNull |-> TRUE]
IsNull(j) == "jsonNull" \in DOMAIN j

\* the bodies the backend answers with: the text, and what JSON.parse makes of it
Bodies ==
    { [text |-> "{\"data\":[{\"b64_json\":\"aGk=\"}]}",
       json |-> [data |-> <<[b64_json |-> "aGk="]>>]],
      [text |-> "{\"data\":[{\"b64_json\":\"\"}]}",
       json |-> [data |-> <<[b64_json |-> ""]>>]],
      [text |-> "{\"data\":[{\"b64_json\":\"!!!!\"}]}",
       json |-> [data |-> <<[b64_json |-> "!!!!"]>>]],
      [text |-> "{\"data\":[]}",
       json |-> [data |-> << >>]],
      [text |-> "{\"created\":1}",
       json |-> [created |-> 1]],
      [text |-> "{\"output\":[{\"type\":\"message\"},{\"type\":\"image_generation_call\",\"result\":\"aGk=\"}]}",
       json |-> [output |-> <<[type |-> "message"],
                               [type |-> "image_generation_call", result |-> "aGk="]>>]],
      [text |-> "<html>Bad Gateway</html>", json |-> JsonNull],
      [text |-> "null", json |-> JsonNull],
      [text |-> "{\"error\":{\"message\":\"Unknown parameter: 'quality'.\"}}",
       json |-> [error |-> [message |-> "Unknown parameter: 'quality'."]]],
      [text |-> "{\"error\":{\"message\":\"Invalid value: '1536x1024'.\"}}",
       json |-> [error |-> [message |-> "Invalid value: '1536x1024'."]]] }

\* try { json = JSON.parse(text) } catch { json = null }
ParseJson(text) ==
    IF \E b \in Bodies : b.text = text
    THEN (CHOOSE b \in Bodies : b.text = text).json
    ELSE JsonNull

HasError(b) == ~IsNull(b.json) /\ "error" \in DOMAIN b.json

\* the answers of the backend: r.ok, r.status and the body text
Answers ==
    {[ok |-> TRUE, status |-> 200, text |-> b.text] : b \in {c \in Bodies : ~HasError(c)}}
      \cup {[ok |-> FALSE, status |-> 400, text |-> b.text] : b \in {c \in Bodies : HasError(c)}}
      \cup {[ok |-> FALSE, status |-> 502, text |-> "<html>Bad Gateway</html>"],
            [ok |-> FALSE, status |-> 500, text |-> "null"]}

\* what callOpenAIImageEdit returns for an answer
CallResult(answer) ==
    [ok |-> answer.ok, status |-> answer.status, rawText |-> answer.text,
     json |-> ParseJson(answer.text)]

\* result.json ?? result.rawText
JsonOrText(result) ==
    IF IsNull(result.json) THEN [text |-> result.rawText] ELSE [json |-> result.json]

\* result.json?.data?.[0]?.b64_json; "" stands for undefined
FlatB64(json) ==
    IF IsNull(json) \/ "data" \notin DOMAIN json THEN ""
    ELSE IF Len(json.data) = 0 THEN ""
    ELSE Field(json.data[1], "b64_json")

\* result.json?.output?.find((o) => o.type === "image_generation_call")?.result
StructuredB64(json) ==
    IF IsNull(json) \/ "output" \notin DOMAIN json THEN ""
    ELSE LET hits == {i \in 1..Len(json.output) :
                         Field(json.output[i], "type") = "image_generation_call"}
         IN  IF hits = {} THEN ""
             ELSE Field(json.output[CHOOSE i \in hits : \A j \in hits : i <= j], "result")

\* ExtractB64 falling back to the other envelope shape
ExtractB64Either(rev, json) ==
    IF FlatB64(json) # "" THEN FlatB64(json) ELSE StructuredB64(json)

\* the base64 payload the render route of a program reads from a result
ExtractB64(rev, json) ==
    IF rev = "part_001" THEN StructuredB64(json) ELSE FlatB64(json)

Base64Chars == "ABCDEFGHIJKLMNOPQRSTUVWXYZabcdefghijklmnopqrstuvwxyz0123456789+/"

Base64Value(c) ==
    (CHOOSE k \in 1..Len(Base64Chars) : CharAt(Base64Chars, k) = c) - 1

IsBase64Char(c) == \E k \in 1..Len(Base64Chars) : CharAt(Base64Chars, k) = c

\* the 6-bit values Buffer.from(s, "base64") reads: characters outside the
\* alphabet are skipped and the padding ends the input
RECURSIVE Sextets(_, _)
Sextets(s, i) ==
    IF i > Len(s) \/ CharAt(s, i) = "=" THEN << >>
    ELSE IF IsBase64Char(CharAt(s, i))
    THEN <<Base64Value(CharAt(s, i))>> \o Sextets(s, i + 1)
    ELSE Sextets(s, i + 1)

RECURSIVE Pow2(_)
Pow2(n) == IF n = 0 THEN 1 ELSE 2 * Pow2(n - 1)

\* Buffer.from(b64, "base64"): never throws on a string
Base64Decode(s) ==
    LET six == Sextets(s, 1)
        nBytes == (Len(six) * 6) \div 8
        byte(k) ==
            LET i == ((8 * (k - 1)) \div 6) + 1
                off == (8 * (k - 1)) % 6
                pair == six[i] * 64 + six[i + 1]
            IN  (pair \div Pow2(4 - off)) % 256
    IN  [k \in 1..nBytes |-> byte(k)]

-----------------------------------------------------------------------------
(* The render routes *)

JsonResponse(status, body) == [status |-> status, type |-> "json", body |-> body]

PngResponse(bytes, missing, filtered_out) ==
    [status |-> 200, type |-> "png", body |-> bytes,
     headers |-> [missing |-> join(missing, ","),
                  filtered |-> join([i \in 1..Len(filtered_out) |-> filtered_out[i].id], ",")]]

\* the catch block of a route
ServerError == JsonResponse(500, [error |-> "Server error"])

NoFile == [absent |-> TRUE]
NoError == [none |-> TRUE]

\* ValidationError looking at the upload before the API key
ValidationErrorFileFirst(d, r) ==
    IF r.file = NoFile
    THEN JsonResponse(400, [error |-> "bike_image (file) is required"])
    ELSE IF ~d.apiKey THEN JsonResponse(500, [error |-> "Missing OPENAI_API_KEY"])
    ELSE IF normalizeVariant(r.body.variant) = ""
    THEN JsonResponse(400, [error |-> "variant must be r1300gs or r1300gs_adventure"])
    ELSE IF trim(r.body.accessory_ids) = ""
    THEN JsonResponse(400, [error |-> "accessory_ids is required (comma-separated IDs)"])
    ELSE NoError

\* the early returns of a render route, in the order the code takes them
ValidationError(d, r) ==
    IF ~d.apiKey THEN JsonResponse(500, [error |-> "Missing OPENAI_API_KEY"])
    ELSE IF r.file = NoFile
    THEN JsonResponse(400, [error |-> "bike_image (file) is required"])
    ELSE IF normalizeVariant(r.body.variant) = ""
    THEN JsonResponse(400, [error |-> "variant must be r1300gs or r1300gs_adventure"])
    ELSE IF trim(r.body.accessory_ids) = ""
    THEN JsonResponse(400, [error |-> "accessory_ids is required (comma-separated IDs)"])
    ELSE NoError

\* the locals of a render route once the request is validated
Locals(d, r) ==
    LET variant == normalizeVariant(r.body.variant)
        view == normalizeView(r.body.view)
        background == trim(toLowerCase(OrElse(r.body.background, "studio_gray")))
        realism == trim(toLowerCase(OrElse(r.body.realism, "studio_3d")))
        requestedSize == normalizeSize(r.body.size)
        resolution == resolveFromCsv(r.body.accessory_ids, TRUE)
        model == ActiveModel(d)
        isDalle2 == d.rev = "server" /\ model = "dall-e-2"
    IN  [variant |-> variant, view |-> view,
         requestedSize |-> requestedSize,
         debug |-> (r.route = "/v1/bike/render" /\ IsDebug(r.body)),
         selected |-> resolution.selected,
         missing |-> resolution.missing,
         filtered_out |-> resolution.filtered_out,
         model |-> model,
         isDalle2 |-> isDalle2,
         size |-> IF isDalle2 THEN normalizeDalle2Size ELSE requestedSize,
         prompt |-> IF d.rev = "server"
                    THEN RoutePrompt(model, variant, view, background, realism,
                                     resolution.selected)
                    ELSE buildEditPrompt(variant, view, background, realism,
                                         resolution.selected)]

\* the JSON a debug request is answered with
DebugResponse(c) ==
    JsonResponse(200,
        [ok |-> TRUE, model |-> c.model, variant |-> c.variant, view |-> c.view,
         requested_size |-> c.requestedSize, effective_size |-> c.size,
         prompt_length |-> Len(c.prompt),
         missing_accessory_ids |-> c.missing, filtered_out |-> c.filtered_out,
         resolved_accessories |-> c.selected, prompt |-> c.prompt])

\* BikePng without the square crop for dall-e-2
BikePngInside(d, c, file) ==
    IF d.rev = "server" THEN toPngBuffer(file, 1600, FALSE)
    ELSE toRgbaPngBuffer(file, d.resizeMax)

\* const bikePng = ... of the render routes
BikePng(d, c, file) ==
    IF d.rev = "server"
    THEN IF c.isDalle2 THEN toPngBuffer(file, 1024, TRUE)
         ELSE toPngBuffer(file, 1600, FALSE)
    ELSE toRgbaPngBuffer(file, d.resizeMax)

\* the call callOpenAIImageEdit makes
OutboundCall(d, c, png) ==
    [url |-> Endpoint(d.rev), params |-> CallParams(d.rev), model |-> c.model,
     prompt |-> c.prompt, size |-> c.size, image |-> png]

\* RenderOutcome answering every backend failure with status 500
RenderOutcomeMasked(d, c, result) ==
    IF ~result.ok
    THEN JsonResponse(500,
             [error |-> "OpenAI request failed", details |-> JsonOrText(result)])
    ELSE LET b64 == ExtractB64(d.rev, result.json)
         IN  IF b64 = ""
             THEN JsonResponse(500,
                      [error |-> "No b64_json returned", details |-> JsonOrText(result)])
             ELSE PngResponse(Base64Decode(b64), c.missing, c.filtered_out)

\* what POST /v1/bike/render answers once callOpenAIImageEdit returned
RenderOutcome(d, c, result) ==
    IF ~result.ok
    THEN JsonResponse(result.status,
             [error |-> "OpenAI request failed", details |-> JsonOrText(result)])
    ELSE LET b64 == ExtractB64(d.rev, result.json)
         IN  IF b64 = ""
             THEN JsonResponse(500,
                      [error |-> "No b64_json returned", details |-> JsonOrText(result)])
             ELSE PngResponse(Base64Decode(b64), c.missing, c.filtered_out)

\* what POST /v1/bike/render/json answers once callOpenAIImageEdit returned
JsonOutcome(c, result) ==
    JsonResponse(result.status,
        [ok |-> result.ok, status |-> result.status, model |-> c.model,
         requested_size |-> c.requestedSize, effective_size |-> c.size,
         prompt_length |-> Len(c.prompt),
         missing_accessory_ids |-> c.missing, filtered_out |-> c.filtered_out,
         openai |-> JsonOrText(result)])

-----------------------------------------------------------------------------
(* The server: start-up and one render request *)

EnvModels == {"", "dall-e-2", "gpt-image-1"}

\* Number(process.env.RESIZE_MAX || 0), read by the older programs only
ResizeMaxes(rev) == IF rev = "server" THEN {0} ELSE {0, 1600}

Deployments ==
    {d \in [rev : Revisions, envModel : EnvModels, apiKey : BOOLEAN, resizeMax : {0, 1600}] :
        d.resizeMax \in ResizeMaxes(d.rev)}

RequestBodies ==
    [variant : {" R1300GS_Adventure", "f800gs"},
     view : {"FRONT_3Q"},
     background : {""},
     realism : {"more_real"},
     size : {"", "1024x1536"},
     debug : {"true", "false"},
     accessory_ids : {"", "  ", ",", "zz", "w1, h1,zz,b1"}]

Requests(route) == [route : {route}, file : Files \cup {NoFile}, body : RequestBodies]

InitServer ==
    /\ InitStore
    /\ deploy \in Deployments
    /\ pc = "boot"
    /\ req = << >>
    /\ ctx = << >>
    /\ pngs = << >>
    /\ outbound = << >>
    /\ replies = << >>
    /\ responses = << >>

\* store.load() at start-up
StartupLoad ==
    /\ pc = "boot"
    /\ items' = [isArray |-> TRUE, elems |-> CatalogA]
    /\ byId' = IndexById(CatalogA)
    /\ op' = "load"
    /\ args' = << >>
    /\ ret' = <<Len(CatalogA)>>    \* count, which the server only logs
    /\ pc' = "listening"
    /\ UNCHANGED <<deploy, req, ctx, pngs, outbound, replies, responses>>

\* store.load() throws and the catch logs it; the server starts all the same
StartupLoadFails ==
    /\ pc = "boot"
    /\ op' = "loadThrew"
    /\ \E bad \in BadDatasets :
         items' = IF bad.assigned THEN bad.items ELSE items
    /\ byId' = byId
    /\ args' = << >>
    /\ ret' = << >>
    /\ pc' = "listening"
    /\ UNCHANGED <<deploy, req, ctx, pngs, outbound, replies, responses>>

\* Number(req.query.limit || 100)
QueryLimit(text) ==
    CASE text = "" -> 100
      [] text = "0" -> 0
      [] text = "-1" -> 0 - 1
      [] text = "2" -> 2
      [] text = "1001" -> 1001

AccessoryQueries ==
    [q : {"", "Wind"}, limit : {"", "0", "-1", "2", "1001"},
     mountable_only : {"", "true"}]

\* GET /v1/accessories; a throw of store.search is answered by express with 500
GetAccessories ==
    /\ pc = "listening"
    /\ \E query \in AccessoryQueries :
         LET found == search(query.q, QueryLimit(query.limit),
                             OrElse(query.mountable_only, "false") = "true")
         IN  /\ req' = [route |-> "/v1/accessories", query |-> query]
             /\ responses' = <<IF found = TypeError
                                THEN [status |-> 500, type |-> "error", body |-> found]
                                ELSE JsonResponse(200, found)>>
    /\ pc' = "served"
    /\ UNCHANGED <<storeVars, deploy, ctx, pngs, outbound, replies>>

\* POST /v1/bike/render, up to its first await
ReceiveRender ==
    /\ pc = "listening"
    /\ \E r \in Requests("/v1/bike/render") :
         /\ req' = r
         /\ IF ValidationError(deploy, r) # NoError
            THEN /\ responses' = <<ValidationError(deploy, r)>>
                 /\ ctx' = << >>
                 /\ pc' = "done"
            ELSE /\ ctx' = Locals(deploy, r)
                 /\ IF IsDebug(r.body)
                    THEN responses' = <<DebugResponse(Locals(deploy, r))>> /\ pc' = "done"
                    ELSE responses' = << >> /\ pc' = "normalizing"
    /\ UNCHANGED <<storeVars, deploy, pngs, outbound, replies>>

\* POST /v1/bike/render/json, up to its first await
ReceiveRenderJson ==
    /\ pc = "listening"
    /\ "/v1/bike/render/json" \in Routes(deploy.rev)
    /\ \E r \in Requests("/v1/bike/render/json") :
         /\ req' = r
         /\ IF ValidationError(deploy, r) # NoError
            THEN /\ responses' = <<ValidationError(deploy, r)>>
                 /\ ctx' = << >>
                 /\ pc' = "done"
            ELSE /\ ctx' = Locals(deploy, r)
                 /\ responses' = << >>
                 /\ pc' = "normalizing"
    /\ UNCHANGED <<storeVars, deploy, pngs, outbound, replies>>

\* toPngBuffer resolves and callOpenAIImageEdit posts the request
NormalizeDone ==
    /\ pc = "normalizing"
    /\ ToPng(req.file).outcome = "png"
    /\ pngs' = Append(pngs, BikePng(deploy, ctx, req.file))
    /\ outbound' = Append(outbound, OutboundCall(deploy, ctx, BikePng(deploy, ctx, req.file)))
    /\ pc' = "calling"
    /\ UNCHANGED <<storeVars, deploy, req, ctx, replies, responses>>

\* toPngBuffer rejects: the catch block answers
NormalizeThrows ==
    /\ pc = "normalizing"
    /\ ToPng(req.file).outcome = "throw"
    /\ responses' = Append(responses, ServerError)
    /\ pc' = "done"
    /\ UNCHANGED <<storeVars, deploy, req, ctx, pngs, outbound, replies>>

\* fetch resolves with the backend's answer and the route answers the caller
BackendAnswers ==
    /\ pc = "calling"
    /\ \E a \in Answers :
         /\ replies' = Append(replies, a)
         /\ responses' = Append(responses,
                IF req.route = "/v1/bike/render"
                THEN RenderOutcome(deploy, ctx, CallResult(a))
                ELSE JsonOutcome(ctx, CallResult(a)))
    /\ pc' = "done"
    /\ UNCHANGED <<storeVars, deploy, req, ctx, pngs, outbound>>

\* fetch rejects (no answer from the backend): the catch block answers
FetchRejects ==
    /\ pc = "calling"
    /\ responses' = Append(responses, ServerError)
    /\ pc' = "done"
    /\ UNCHANGED <<storeVars, deploy, req, ctx, pngs, outbound, replies>>

Next ==
    \/ StartupLoad
    \/ StartupLoadFails
    \/ GetAccessories
    \/ ReceiveRender
    \/ ReceiveRenderJson
    \/ NormalizeDone
    \/ NormalizeThrows
    \/ BackendAnswers
    \/ FetchRejects

Spec == InitServer /\ [][Next]_vars

\* await toPngBuffer(...) settles: NormalizeDone or NormalizeThrows is taken
NormalizeSettles == pc = "normalizing" /\ pc' \in {"calling", "done"}

\* await fetch(...) settles: BackendAnswers or FetchRejects is taken
FetchSettles == pc = "calling" /\ pc' = "done"

\* The promises a route awaits settle: sharp and heic-convert finish or throw,
\* and fetch resolves or rejects.
LiveSpec ==
    /\ Spec
    /\ WF_pc(NormalizeSettles)
    /\ WF_pc(FetchSettles)

-----------------------------------------------------------------------------
(* Properties of resolveFromCsv *)

\* The comma-separated pieces of s, read off the positions of its commas.
CommaAt(s, k) ==
    LET commas == {i \in 1..Len(s) : CharAt(s, i) = ","}
    IN  IF k = 0 THEN 0
        ELSE IF k > Cardinality(commas) THEN Len(s) + 1
        ELSE CHOOSE c \in commas : Cardinality({d \in commas : d <= c}) = k

PiecesOf(s) ==
    LET n == Cardinality({i \in 1..Len(s) : CharAt(s, i) = ","})
    IN  [k \in 1..(n + 1) |-> SubSeq(s, CommaAt(s, k - 1) + 1, CommaAt(s, k) - 1)]

\* the trimmed, non-empty tokens of s in the order given
TokensOf(s) ==
    LET pieces == PiecesOf(s)
    IN  SelectSeq([k \in 1..Len(pieces) |-> trim(pieces[k])], NonEmpty)

Count(seq, x) == Cardinality({i \in 1..Len(seq) : seq[i] = x})

SelectedIds(r) == [i \in 1..Len(r.selected) |-> r.selected[i].id]
FilteredIds(r) == [i \in 1..Len(r.filtered_out) |-> r.filtered_out[i].id]

\* the catalog record a token names: the last one of items with that trimmed id
Known(id) == \E i \in 1..Len(items.elems) : trim(items.elems[i].id) = id
RecordOf(id) ==
    items.elems[CHOOSE i \in 1..Len(items.elems) :
                    /\ trim(items.elems[i].id) = id
                    /\ \A j \in (i + 1)..Len(items.elems) : trim(items.elems[j].id) # id]

\* the bucket the claim assigns to a token
BucketOf(id, mountableOnly) ==
    IF ~Known(id) THEN "missing"
    ELSE IF mountableOnly /\ ~isMountable(RecordOf(id)) THEN "filtered_out"
    ELSE "selected"

Resolved == op = "resolveFromCsv"

\* C1: resolveFromCsv drops the empty tokens and puts every remaining token
\* occurrence in exactly one of selected, missing, filtered_out (unknown id ->
\* missing; known, non-mountable and mountableOnly -> filtered_out; otherwise
\* selected), so the three lengths add up to the number of non-empty tokens,
\* and an input without tokens gives three empty outputs.
C1_Partition ==
    Resolved =>
        LET toks == TokensOf(args.csvIds)
            inBucket(b, id) ==
                CASE b = "missing" -> Count(ret.missing, id)
                  [] b = "filtered_out" -> Count(FilteredIds(ret), id)
                  [] b = "selected" -> Count(SelectedIds(ret), id)
        IN  /\ Len(ret.selected) + Len(ret.missing) + Len(ret.filtered_out) = Len(toks)
            /\ \A k \in 1..Len(toks) :
                 \A b \in {"missing", "filtered_out", "selected"} :
                     inBucket(b, toks[k]) =
                        IF b = BucketOf(toks[k], args.mountableOnly)
                        THEN Count(toks, toks[k]) ELSE 0
            /\ (toks = << >> => ret = EmptyResolution)

\* C1 witness: an input with an empty piece whose tokens reach all three buckets
C1_Witness ==
    /\ Resolved
    /\ Len(PiecesOf(args.csvIds)) > Len(TokensOf(args.csvIds))
    /\ Len(ret.selected) > 0
    /\ Len(ret.missing) > 0
    /\ Len(ret.filtered_out) > 0

\* C2: each of selected, missing and filtered_out lists its ids in the order
\* the caller gave them, duplicates kept: each bucket is the token sequence
\* restricted to the ids of that bucket, and no id is in two buckets.
C2_OrderAndDuplicates ==
    Resolved =>
        LET toks == TokensOf(args.csvIds)
            sel == SelectedIds(ret)
            fil == FilteredIds(ret)
            mis == ret.missing
            ids(seq) == {seq[i] : i \in 1..Len(seq)}
            inSel(t) == t \in ids(sel)
            inFil(t) == t \in ids(fil)
            inMis(t) == t \in ids(mis)
        IN  /\ sel = SelectSeq(toks, inSel)
            /\ fil = SelectSeq(toks, inFil)
            /\ mis = SelectSeq(toks, inMis)
            /\ ids(sel) \cap ids(fil) = {}
            /\ ids(sel) \cap ids(mis) = {}
            /\ ids(fil) \cap ids(mis) = {}

\* C2 witness: an id given twice around another one, all three selected
C2_Witness ==
    /\ Resolved
    /\ Len(ret.selected) = 3
    /\ ret.selected[1].id = ret.selected[3].id
    /\ ret.selected[1].id # ret.selected[2].id

-----------------------------------------------------------------------------
(* Properties of the mountability policy *)

\* (a) a product-type keyword key, lower-cased and trimmed, is disallowed
HasDisallowedKey(rec) ==
    \E i \in 1..Len(rec.types) : trim(toLowerCase(rec.types[i])) \in DISALLOWED_PRODUCT_TYPES

\* (b) a disallow-hint occurs, letter case aside, in "name description category"
HintOccurs(rec) ==
    LET text == rec.name \o " " \o rec.description \o " " \o rec.category
    IN  \E k \in 1..Len(DISALLOWED_TEXT_HINTS) :
          LET h == DISALLOWED_TEXT_HINTS[k]
          IN  \E p \in 0..(Len(text) - Len(h)) :
                \A j \in 1..Len(h) : LowerChar(CharAt(text, p + j)) = CharAt(h, j)

Excluded(rec) == HasDisallowedKey(rec) \/ HintOccurs(rec)

\* C3: an item is classified non-mountable exactly when (a) one of its
\* product-type keys, lower-cased and trimmed, is in the disallow-list or (b)
\* its lower-cased name, description and category text contains a disallow
\* hint; resolveFromCsv and search both follow that classification.
C3_Mountability ==
    /\ op = "load" =>
          \A i \in 1..Len(items.elems) :
              isMountable(items.elems[i]) = ~Excluded(items.elems[i])
    /\ Resolved =>
          \A k \in 1..Len(ret.filtered_out) :
              /\ args.mountableOnly
              /\ Excluded(RecordOf(ret.filtered_out[k].id))
    /\ Resolved =>
          \A k \in 1..Len(ret.selected) :
              args.mountableOnly => ~Excluded(RecordOf(ret.selected[k].id))
    /\ (op = "search" /\ args.mountableOnly) =>
          /\ \A k \in 1..Len(ret.items) :
                \E i \in 1..Len(items.elems) :
                    /\ items.elems[i].id = ret.items[k].id
                    /\ ~Excluded(items.elems[i])
          /\ (args.q = "" =>
                ret.total = Cardinality({i \in 1..Len(items.elems) :
                                            ~Excluded(items.elems[i])}))

\* C3 witness: one resolution that excludes an item for its product type only
\* and another for a text hint only, and selects a third
C3_Witness ==
    /\ Resolved
    /\ \E k \in 1..Len(ret.filtered_out) :
          LET rec == RecordOf(ret.filtered_out[k].id)
          IN  HasDisallowedKey(rec) /\ ~HintOccurs(rec)
    /\ \E k \in 1..Len(ret.filtered_out) :
          LET rec == RecordOf(ret.filtered_out[k].id)
          IN  ~HasDisallowedKey(rec) /\ HintOccurs(rec)
    /\ Len(ret.selected) > 0

\* the disallowed keys of a record, lower-cased and trimmed, in key order
DisallowedKeys(rec) ==
    LET bad == {i \in 1..Len(rec.types) :
                   trim(toLowerCase(rec.types[i])) \in DISALLOWED_PRODUCT_TYPES}
        nth(k) == CHOOSE i \in bad : Cardinality({j \in bad : j <= i}) = k
    IN  [k \in 1..Cardinality(bad) |-> trim(toLowerCase(rec.types[nth(k)]))]

\* the keys a reason lists between its parentheses
ListedKeys(reason) ==
    LET open == CHOOSE i \in 1..Len(reason) : CharAt(reason, i) = "("
    IN  TokensOf(SubSeq(reason, open + 1, Len(reason) - 1))

TextHintReason == "excluded by text hint (non-mountable)"

\* C4: the reason of a filtered_out entry names the item's disallowed
\* product-type keys (it contains "product_type" and lists exactly those keys)
\* whenever the item has one, also when a text hint matches too, and is the
\* generic text-hint reason otherwise.
C4_Reason ==
    Resolved =>
        \A k \in 1..Len(ret.filtered_out) :
            LET e == ret.filtered_out[k]
                rec == RecordOf(e.id)
            IN  IF HasDisallowedKey(rec)
                THEN /\ includes(e.reason, "product_type")
                     /\ ListedKeys(e.reason) = DisallowedKeys(rec)
                ELSE /\ e.reason = TextHintReason
                     /\ ~includes(e.reason, "product_type")

\* C4 witness: an item with a disallowed type and a text hint gets the
\* product-type reason, next to an item excluded by a text hint only
C4_Witness ==
    /\ Resolved
    /\ \E k \in 1..Len(ret.filtered_out) :
          LET rec == RecordOf(ret.filtered_out[k].id)
          IN  /\ HasDisallowedKey(rec) /\ HintOccurs(rec)
              /\ Len(DisallowedKeys(rec)) = 2
              /\ includes(ret.filtered_out[k].reason, "product_type")
    /\ \E k \in 1..Len(ret.filtered_out) : ret.filtered_out[k].reason = TextHintReason

-----------------------------------------------------------------------------
(* Properties of the compact prompt *)

\* C5: buildCompactDalle2Prompt returns a string of at most maxLen characters
\* for every configuration, accessory list and maxLen >= 0, also a maxLen
\* below the base prompt, so a prompt built for dall-e-2 by the render routes
\* has at most 950 characters.
C5_CompactLength ==
    /\ op = "buildCompactDalle2Prompt" => Len(ret) <= args.maxLen
    /\ (op = "routePrompt" /\ args.model = "dall-e-2") => Len(ret) <= 950

\* C5 witness: the prompt before the hard cap passes maxLen and the returned
\* prompt fills it
C5_Witness ==
    /\ op = "buildCompactDalle2Prompt"
    /\ Len(args.accessories) > 1
    /\ Len(CompactBody(args.variant, args.view, args.background, args.realism,
                       args.accessories, args.maxLen)) > args.maxLen
    /\ args.maxLen >= 400
    /\ Len(ret) >= args.maxLen - 1

\* the non-empty trimmed names of an accessory list: name, else title, else id
NamesOf(accessories) ==
    SelectSeq([i \in 1..Len(accessories) |-> AccessoryName(accessories[i])], NonEmpty)

CompactHeader == "Accessories to install and clearly show mounted on the bike: "

\* the compact prompt up to and with the header of the accessory list
CompactHead ==
    CompactBody(args.variant, args.view, args.background, args.realism, << >>,
                args.maxLen) \o CompactHeader

\* the lengths of names[lo..hi] added up
RECURSIVE SumLen(_, _, _)
SumLen(names, lo, hi) ==
    IF lo > hi THEN 0
    ELSE IF lo = hi THEN Len(names[lo])
    ELSE LET mid == (lo + hi) \div 2
         IN  SumLen(names, lo, mid) + SumLen(names, mid + 1, hi)

\* the length of the first k names joined by ", "
JoinedLen(names, k) == SumLen(names, 1, k) + 2 * Max(0, k - 1)

\* the longest prefix of names that keeps head and names within maxLen
LongestPrefix(names, headLen, maxLen) ==
    LET fitting == {k \in 0..Len(names) : headLen + JoinedLen(names, k) <= maxLen}
    IN  IF fitting = {} THEN 0 ELSE CHOOSE k \in fitting : \A j \in fitting : j <= k

\* C18: the names in the compact prompt are the longest prefix of the name
\* list that keeps the prompt within maxLen, in order and each in full: no name
\* after the first that does not fit is added, the final cut takes at most the
\* closing of the list, and no description appears.
C18_NamePrefix ==
    (op = "buildCompactDalle2Prompt" /\ NamesOf(args.accessories) # << >>) =>
        LET names == NamesOf(args.accessories)
            head == CompactHead
            k == LongestPrefix(names, Len(head), args.maxLen)
            listed == join(SubSeq(names, 1, k), ", ")
        IN  /\ IF Len(head) <= args.maxLen
               THEN /\ ret = trim(slice(head \o listed \o ".\n", args.maxLen))
                    /\ Len(head \o listed) <= args.maxLen
                    /\ includes(ret, listed)
               ELSE ret = trim(slice(head, args.maxLen))
            /\ \A i \in 1..Len(names) :
                  (i > k /\ \A j \in 1..k : names[j] # names[i]) =>
                      ~includes(ret, ", " \o names[i])
            /\ \A i \in 1..Len(args.accessories) :
                  Field(args.accessories[i], "description") # "" =>
                      ~includes(ret, args.accessories[i].description)

\* C18 witness: the first name does not fit, so the second one, which would
\* fit, is not added either
C18_Witness ==
    /\ op = "buildCompactDalle2Prompt"
    /\ Len(NamesOf(args.accessories)) = 2
    /\ Len(CompactHead) < args.maxLen
    /\ LongestPrefix(NamesOf(args.accessories), Len(CompactHead), args.maxLen) = 0
    /\ Len(CompactHead) + Len(NamesOf(args.accessories)[2]) <= args.maxLen
    /\ ~includes(ret, NamesOf(args.accessories)[2])

-----------------------------------------------------------------------------
(* Properties of the unrestricted prompt *)

Unrestricted == op = "routePrompt" /\ args.model # "dall-e-2"

\* "- name" or "- name: description"
SectionLine(a) ==
    "- " \o a.name \o (IF a.description = "" THEN "" ELSE ": " \o a.description)

AccessorySection(accessories) ==
    "Install and clearly show these accessories mounted on the bike:\n" \o
    (IF accessories = << >> THEN "- (none)"
     ELSE join([i \in 1..Len(accessories) |-> SectionLine(accessories[i])], "\n")) \o
    "\n\nImportant:"

Checklist(accessories) ==
    "Must visibly include (non-negotiable):\n" \o
    (IF accessories = << >> THEN "- (none)"
     ELSE join([i \in 1..Len(accessories) |-> "- " \o accessories[i].name], "\n")) \o
    "\nIf any item above is not visible"

NegativeConstraints(prompt) ==
    /\ includes(prompt, "No rider.")
    /\ includes(prompt, "No text, no watermark")
    /\ includes(prompt, "Do not add extra bikes")

\* C19 as claimed: the unrestricted prompt lists every selected accessory, in
\* order, in the accessories section and in the checklist, for a list of any
\* length; without accessories both read "(none)"; the negative constraints
\* are there.
C19_ListsEveryAccessory ==
    Unrestricted =>
        /\ includes(ret, AccessorySection(args.accessories))
        /\ includes(ret, Checklist(args.accessories))
        /\ NegativeConstraints(ret)

\* C19 amended: the accessories section lists every selected accessory in
\* order; the checklist lists the names of the first 12 of them in order;
\* without accessories both read "(none)"; the negative constraints are there.
C19_ChecklistOfTwelve ==
    Unrestricted =>
        /\ includes(ret, AccessorySection(args.accessories))
        /\ includes(ret, Checklist(SubSeq(args.accessories, 1,
                                          Min(12, Len(args.accessories)))))
        /\ NegativeConstraints(ret)

\* C19 witness: thirteen accessories, the thirteenth in the accessories section
\* and not in the checklist, which ends with the twelfth
C19_Witness ==
    /\ Unrestricted
    /\ Len(args.accessories) = 13
    /\ includes(ret, "- Part M: Fits slot M\n\nImportant:")
    /\ includes(ret, "- Part L\nIf any item above")
    /\ ~includes(ret, "- Part M\n")

-----------------------------------------------------------------------------
(* Properties of the render routes *)

Received == pc \in {"normalizing", "calling", "done"}
Done == pc = "done"
OnRender == Received /\ req.route = "/v1/bike/render"
OnRenderJson == Received /\ req.route = "/v1/bike/render/json"
Validated == Received /\ ValidationError(deploy, req) = NoError

\* the backend body a response carries: details on /render, openai on /render/json
Carried(response) ==
    IF "details" \in DOMAIN response.body THEN response.body.details
    ELSE response.body.openai

QualityRejection(a) == ~a.ok /\ includes(a.text, "Unknown parameter: 'quality'")

OptionalParams == {"quality", "output_format"}

C7_FailureIsFinal ==
    (Len(replies) >= 1 /\ ~replies[1].ok /\ ~QualityRejection(replies[1])) =>
        LET a == replies[1]
            parsed == ParseJson(a.text)
        IN  /\ Done
            /\ Len(outbound) = 1
            /\ Len(replies) = 1
            /\ Len(responses) = 1
            /\ responses[1].type = "json"
            /\ responses[1].status = a.status
            /\ Carried(responses[1]) \in {[json |-> parsed], [text |-> a.text]}
            /\ (IsNull(parsed) => Carried(responses[1]) = [text |-> a.text])
            /\ (~IsNull(parsed) => Carried(responses[1]) = [json |-> parsed])

\* C7 witness: a 502 with an HTML body passed on by POST /v1/bike/render
C7_Witness ==
    /\ Done
    /\ OnRender
    /\ Len(replies) = 1
    /\ replies[1].status = 502
    /\ responses[1].status = 502
    /\ responses[1].body.details = [text |-> "<html>Bad Gateway</html>"]

\* C8 as claimed: on every render route a request whose debug flag is true
\* makes no outbound call and no image normalization.
C8_DebugNeverCalls ==
    (Received /\ req.body.debug = "true") => (outbound = << >> /\ pngs = << >>)

\* C8 amended: on POST /v1/bike/render a request whose debug flag is true
\* makes no outbound call and no image normalization, and once validated is
\* answered with the JSON exposing the prompt, the resolved accessories, the
\* missing and filtered ids, the effective size and the model; POST
\* /v1/bike/render/json does not read the flag and calls the backend whenever
\* the request is validated and its image converts.
C8_DebugOnRender ==
    /\ (OnRender /\ req.body.debug = "true") =>
          /\ Done
          /\ outbound = << >>
          /\ pngs = << >>
          /\ replies = << >>
          /\ Len(responses) = 1
          /\ Validated =>
                LET resolution == resolveFromCsv(req.body.accessory_ids, TRUE)
                    body == responses[1].body
                IN  /\ responses[1].status = 200
                    /\ responses[1].type = "json"
                    /\ body.prompt = ctx.prompt
                    /\ body.prompt_length = Len(ctx.prompt)
                    /\ body.resolved_accessories = resolution.selected
                    /\ body.missing_accessory_ids = resolution.missing
                    /\ body.filtered_out = resolution.filtered_out
                    /\ body.effective_size = ctx.size
                    /\ body.model = ActiveModel(deploy)
    /\ (OnRenderJson /\ Validated /\ Done /\ ToPng(req.file).outcome = "png") =>
          Len(outbound) = 1 \/ responses = <<ServerError>>

\* C8 witness: a validated debug request on POST /v1/bike/render, answered
\* with resolved, missing and filtered accessories
C8_Witness ==
    /\ Done
    /\ OnRender
    /\ req.body.debug = "true"
    /\ Validated
    /\ responses[1].status = 200
    /\ Len(responses[1].body.resolved_accessories) > 0
    /\ Len(responses[1].body.missing_accessory_ids) > 0
    /\ Len(responses[1].body.filtered_out) > 0

\* a success answer to POST /v1/bike/render
RenderSucceeded == Done /\ OnRender /\ Len(replies) = 1 /\ replies[1].ok

\* C9 as claimed: a success answer carrying a non-empty base64 payload in
\* either envelope shape yields a PNG response.
C9_EitherShape ==
    RenderSucceeded =>
        LET json == ParseJson(replies[1].text)
        IN  (FlatB64(json) # "" \/ StructuredB64(json) # "") => responses[1].type = "png"

\* C9 amended: each server program reads the one envelope shape of the endpoint
\* it calls: data[0].b64_json after /v1/images/edits, the result of the first
\* image_generation_call item after /v1/responses.  A non-empty payload there
\* yields a PNG response with the decoded bytes, whichever model is active; a
\* payload present only in the other shape ends as status 500.
C9_OwnShape ==
    RenderSucceeded =>
        LET json == ParseJson(replies[1].text)
            mine == IF Endpoint(deploy.rev) = "https://api.openai.com/v1/responses"
                    THEN StructuredB64(json) ELSE FlatB64(json)
        IN  IF mine # ""
            THEN /\ responses[1].type = "png"
                 /\ responses[1].status = 200
                 /\ responses[1].body = Base64Decode(mine)
            ELSE /\ responses[1].type = "json"
                 /\ responses[1].status = 500
                 /\ responses[1].body.error = "No b64_json returned"

\* C9 witness: the structured shape decoded to a PNG by the /v1/responses program
C9_Witness ==
    /\ RenderSucceeded
    /\ deploy.rev = "part_001"
    /\ StructuredB64(ParseJson(replies[1].text)) # ""
    /\ responses[1].type = "png"
    /\ responses[1].body = <<104, 105>>

\* a base64 text that decodes: alphabet characters, padded to a multiple of four
Decodable(b64) ==
    /\ b64 # ""
    /\ Len(b64) % 4 = 0
    /\ \A i \in 1..Len(b64) :
          \/ IsBase64Char(CharAt(b64, i))
          \/ (CharAt(b64, i) = "=" /\ i > Len(b64) - 2)

\* C10: a success answer in which no envelope shape yields a decodable base64
\* payload ends as a failure with status 500 and the backend body attached,
\* never as a PNG response.
C10_NoImageIsFailure ==
    RenderSucceeded =>
        LET json == ParseJson(replies[1].text)
        IN  (~Decodable(FlatB64(json)) /\ ~Decodable(StructuredB64(json))) =>
                /\ responses[1].type = "json"
                /\ responses[1].status = 500
                /\ Carried(responses[1]) \in {[json |-> json], [text |-> replies[1].text]}

-----------------------------------------------------------------------------
(* Properties of the image conversion *)

\* width and height of a declared size
SizeGeometry(size) ==
    CASE size = "1024x1024" -> [width |-> 1024, height |-> 1024]
      [] size = "1536x1024" -> [width |-> 1536, height |-> 1024]
      [] size = "1024x1536" -> [width |-> 1024, height |-> 1536]
      [] size = "512x512" -> [width |-> 512, height |-> 512]
      [] size = "256x256" -> [width |-> 256, height |-> 256]
      [] OTHER -> [width |-> 0, height |-> 0]

\* the sizes a model's edits accept
SupportedSizes(model) ==
    IF model = "dall-e-2" THEN {"256x256", "512x512", "1024x1024"}
    ELSE {"1024x1024", "1536x1024", "1024x1536"}

Geometry(image) == [width |-> image.width, height |-> image.height]

\* C11 as claimed: every outbound call declares a size the active model supports
\* and sends an image of exactly that width and height.
C11_ImageMatchesSize ==
    \A i \in 1..Len(outbound) :
        /\ outbound[i].size \in SupportedSizes(outbound[i].model)
        /\ Geometry(outbound[i].image) = SizeGeometry(outbound[i].size)

\* C11 amended: src/server.js declares 1024x1024 and sends a 1024x1024 image for
\* dall-e-2, whatever size was requested; for any other model it declares the
\* normalized requested size and sends the upload fitted inside 1600x1600, never
\* enlarged, whose geometry need not be the declared one.  The older programs
\* declare the normalized requested size for every model and send the upload
\* unresized, or fitted inside RESIZE_MAX when that is set.
C11_DeclaredSizeAndImage ==
    \A i \in 1..Len(outbound) :
        LET o == outbound[i]
            file == req.file
            requested == normalizeSize(req.body.size)
            bounded(px) == /\ o.image.width <= px /\ o.image.height <= px
                           /\ o.image.width <= file.width
                           /\ o.image.height <= file.height
                           /\ (file.width <= px /\ file.height <= px) =>
                                  Geometry(o.image) = Geometry(file)
        IN  /\ requested \in {"1024x1024", "1536x1024", "1024x1536"}
            /\ (deploy.rev = "server" /\ o.model = "dall-e-2") =>
                  /\ o.size = "1024x1024"
                  /\ Geometry(o.image) = [width |-> 1024, height |-> 1024]
            /\ (deploy.rev = "server" /\ o.model # "dall-e-2") =>
                  /\ o.size = requested
                  /\ bounded(1600)
            /\ (deploy.rev # "server") =>
                  /\ o.size = requested
                  /\ IF deploy.resizeMax > 0 THEN bounded(deploy.resizeMax)
                     ELSE Geometry(o.image) = Geometry(file)

\* C11 witness: src/server.js with another model declares 1024x1536 and sends
\* a 1600x1200 image
C11_Witness ==
    /\ Len(outbound) = 1
    /\ deploy.rev = "server"
    /\ outbound[1].model = "gpt-image-1"
    /\ outbound[1].size = "1024x1536"
    /\ Geometry(outbound[1].image) = [width |-> 1600, height |-> 1200]

Abs(n) == IF n < 0 THEN 0 - n ELSE n

Converted == op \in {"toPngBuffer", "toRgbaPngBuffer"}

\* C12: a decodable input converted with square = true comes out targetPx x
\* targetPx, also when it is smaller; with square = false both sides are at
\* most targetPx, no side grows, an input within targetPx keeps its geometry,
\* and the aspect ratio is kept to within one rounding step.
C12_Geometry ==
    (op = "toPngBuffer" /\ ret.outcome = "png") =>
        LET w == args.file.width
            h == args.file.height
            px == args.targetPx
        IN  IF args.square
            THEN ret.width = px /\ ret.height = px
            ELSE /\ ret.width <= px /\ ret.height <= px
                 /\ ret.width <= w /\ ret.height <= h
                 /\ ret.width >= 1 /\ ret.height >= 1
                 /\ (w <= px /\ h <= px) => (ret.width = w /\ ret.height = h)
                 /\ \/ 2 * Abs(ret.width * h - ret.height * w) <= Max(w, h)
                    \/ (Min(ret.width, ret.height) = 1
                          /\ Abs(ret.width * h - ret.height * w) < Max(w, h))

\* C12 witness: a small input enlarged to the square, and a large one fitted
\* inside with a rounded side
C12_Witness ==
    /\ op = "toPngBuffer"
    /\ ret.outcome = "png"
    /\ \/ (args.square /\ args.file.width < args.targetPx /\ ret.width = args.targetPx)
       \/ (~args.square /\ args.file.width = 5 /\ args.file.height = 3
             /\ args.targetPx = 2 /\ ret.width = 2 /\ ret.height = 1)
    /\ args.file.width # args.file.height

\* the declared MIME type or the filename extension indicates HEIC/HEIF
DeclaredHeic(file) ==
    \/ toLowerCase(file.mimetype) \in {"image/heic", "image/heif"}
    \/ \E ext \in {".heic", ".heif"} : EndsWith(toLowerCase(file.originalname), ext)

Conversions(steps) == Cardinality({i \in 1..Len(steps) : steps[i] = "heicConvert"})

\* C13: the HEIC conversion is attempted exactly when the first pipeline fails
\* on an upload declared HEIC/HEIF, at most once, and its output goes through
\* the same pipeline and gets the same geometry; a failure on another upload
\* propagates without conversion; a first pipeline that succeeds converts nothing.
C13_HeicRecovery ==
    Converted =>
        LET file == args.file
            expected == IF op = "toRgbaPngBuffer"
                        THEN toRgbaPngBuffer(
                                 Upload(file.mimetype, file.originalname, file.width,
                                        file.height, TRUE, FALSE), args.resizeMax)
                        ELSE toPngBuffer(
                                 Upload(file.mimetype, file.originalname, file.width,
                                        file.height, TRUE, FALSE),
                                 args.targetPx, args.square)
        IN  /\ Conversions(ret.steps) <= 1
            /\ (Conversions(ret.steps) = 1) <=> (~file.sharpDecodes /\ DeclaredHeic(file))
            /\ ret.steps[1] = "pipeline"
            /\ file.sharpDecodes => (ret.outcome = "png" /\ ret.steps = <<"pipeline">>)
            /\ (~file.sharpDecodes /\ ~DeclaredHeic(file)) =>
                  (ret.outcome = "throw" /\ ret.steps = <<"pipeline">>)
            /\ (~file.sharpDecodes /\ DeclaredHeic(file) /\ file.heicDecodes) =>
                  /\ ret.outcome = "png"
                  /\ ret.steps = <<"pipeline", "heicConvert", "pipeline">>
                  /\ Geometry(ret) = Geometry(expected)
            /\ (~file.sharpDecodes /\ DeclaredHeic(file) /\ ~file.heicDecodes) =>
                  (ret.outcome = "throw" /\ ret.steps = <<"pipeline", "heicConvert">>)

\* C13 witness: an upload named .HeiC that sharp does not decode, recovered and
\* cropped to the square
C13_Witness ==
    /\ op = "toPngBuffer"
    /\ ~args.file.sharpDecodes
    /\ args.file.originalname = "IMG_1.HeiC"
    /\ args.square
    /\ ret.outcome = "png"
    /\ ret.via = "heic-convert"
    /\ ret.width = args.targetPx

\* the render request reached image normalization
Normalizing == Received /\ Validated /\ ~ctx.debug

\* C14: an undecodable upload that is not HEIC/HEIF ends the render request
\* with a client error (4xx) and without an outbound call.
C14_UndecodableIsClientError ==
    (Done /\ Normalizing /\ ~req.file.sharpDecodes /\ ~DeclaredHeic(req.file)) =>
        /\ Len(responses) = 1
        /\ responses[1].status \in 400..499
        /\ outbound = << >>

-----------------------------------------------------------------------------
(* Properties of search and load *)

\* a limit clamped into [1, 1000]
Clamped(limit) == IF limit < 1 THEN 1 ELSE IF limit > 1000 THEN 1000 ELSE limit

\* q occurs, letter case aside, in "name description category"
QueryOccurs(rec, q) ==
    LET text == rec.name \o " " \o rec.description \o " " \o rec.category
    IN  \E p \in 0..(Len(text) - Len(q)) :
          \A j \in 1..Len(q) : LowerChar(CharAt(text, p + j)) = LowerChar(CharAt(q, j))

\* C15: search returns total = the number of items that match the query and,
\* when mountableOnly is set, are mountable, counted before truncation, and
\* items = the first min(total, L) of them in load order, L being the limit
\* clamped into [1, 1000] (0 or below gives 1, above 1000 gives 1000).
C15_SearchResult ==
    op = "search" =>
        LET q == trim(args.q)
            hit(rec) == /\ QueryOccurs(rec, q)
                        /\ args.mountableOnly => ~Excluded(rec)
            hits == SelectSeq(items.elems, hit)
            L == Clamped(args.limit)
            first == SubSeq(hits, 1, Min(Len(hits), L))
        IN  /\ ret.total = Len(hits)
            /\ ret.items = [i \in 1..Len(first) |-> Projection(first[i].id, first[i])]

\* C16: after a failed catalog load the service serves an empty catalog: search
\* answers total 0 with no items, resolveFromCsv puts every given id in
\* missing, and neither throws.
C16_FailedLoadServesEmpty ==
    op = "loadThrew" =>
        /\ pc = "served" =>
              responses = <<JsonResponse(200, [total |-> 0, items |-> << >>])>>
        /\ (Received /\ Validated) =>
              /\ ctx.selected = << >>
              /\ ctx.filtered_out = << >>
              /\ ctx.missing = TokensOf(req.body.accessory_ids)

\* the trimmed ids of the records of items
ItemIds == {trim(items.elems[i].id) : i \in {j \in 1..Len(items.elems) :
                                                ~IsNullItem(items.elems[j])}}

\* C17: in every reachable state, also after a load that fails part-way, the
\* key set of byId equals the set of trimmed ids of items.
C17_IndexMatchesItems == DOMAIN byId = ItemIds

-----------------------------------------------------------------------------
(* Properties of a render request as a whole *)

\* the upload converts: sharp decodes it, or it is declared HEIC and heic-convert does
Converts(file) == file.sharpDecodes \/ (DeclaredHeic(file) /\ file.heicDecodes)

ErrorResponse(status, text) ==
    /\ Len(responses) = 1
    /\ responses[1].status = status
    /\ responses[1].type = "json"
    /\ responses[1].body.error = text

\* the state part of C20
C20_Order ==
    OnRender =>
        /\ Len(responses) <= 1
        /\ Done <=> Len(responses) = 1
        /\ (pngs # << >> \/ outbound # << >>) => (Validated /\ req.body.debug # "true")
        /\ Done =>
              IF ~deploy.apiKey THEN ErrorResponse(500, "Missing OPENAI_API_KEY")
              ELSE IF req.file = NoFile
              THEN ErrorResponse(400, "bike_image (file) is required")
              ELSE IF trim(toLowerCase(req.body.variant)) \notin {"r1300gs", "r1300gs_adventure"}
              THEN ErrorResponse(400, "variant must be r1300gs or r1300gs_adventure")
              ELSE IF TokensOf(req.body.accessory_ids) = << >>
                        /\ trim(req.body.accessory_ids) = ""
              THEN ErrorResponse(400, "accessory_ids is required (comma-separated IDs)")
              ELSE IF req.body.debug = "true"
              THEN responses[1].status = 200 /\ pngs = << >> /\ outbound = << >>
              ELSE IF ~Converts(req.file)
              THEN ErrorResponse(500, "Server error") /\ outbound = << >>
              ELSE /\ Len(pngs) = 1
                   /\ Len(outbound) = 1
                   /\ outbound[1].prompt = ctx.prompt
                   /\ replies = << >> => ErrorResponse(500, "Server error")
                   /\ replies # << >> => Len(replies) = 1

\* C20: every POST /v1/bike/render request ends with exactly one response;
\* normalization and the outbound call come only after the validations, which
\* are checked in the order API key (500), file (400), variant (400),
\* accessory_ids (400); a validated request proceeds whatever ids are missing
\* or filtered out; an exception in normalization or in the backend call ends
\* the request with a single 500 response.
C20_OneResponse ==
    /\ []C20_Order
    /\ (OnRender /\ ~Done) ~> (Done /\ Len(responses) = 1)

\* C20 witness: a request none of whose ids resolved went through to the PNG
C20_Witness ==
    /\ Done
    /\ OnRender
    /\ req.body.accessory_ids = "zz"
    /\ Len(outbound) = 1
    /\ ctx.selected = << >>
    /\ ctx.missing = <<"zz">>
    /\ responses[1].type = "png"

=============================================================================
